---------------------------- MODULE Spec2Model ----------------------------
(***************************************************************************)
(* A model of github.com/eskriett/confusables (confusables.go).            *)
(*                                                                         *)
(* A Go string is modelled as the sequence of its code points, written as  *)
(* their real Unicode values; its byte length is computed with utf8Len.    *)
(* An optional value (a Go pointer that may be nil) is a sequence of       *)
(* length 0 (nil) or 1.                                                    *)
(*                                                                         *)
(* Code points used by the model:                                          *)
(*     9 TAB   32 SPACE   33 '!'   35 '#'   40 '('   41 ')'   59 ';'       *)
(*    48 '0'   49 '1'   50 '2'   54 '6'   56 '8'   68 'D'   71 'G'         *)
(*    73 'I'   76 'L'   77 'M'   79 'O'   87 'W'   90 'Z'                  *)
(*   105 'i'  108 'l'  109 'm'  110 'n'  111 'o'  114 'r'                  *)
(*   242 U+00F2 LATIN SMALL LETTER O WITH GRAVE      (NFD: 111 768)        *)
(*   243 U+00F3 LATIN SMALL LETTER O WITH ACUTE      (NFD: 111 769)        *)
(*   653 U+028D LATIN SMALL LETTER TURNED W                                *)
(*   768 U+0300 COMBINING GRAVE ACCENT               (Mn, ccc 230)         *)
(*   769 U+0301 COMBINING ACUTE ACCENT               (Mn, ccc 230)         *)
(*   790 U+0316 COMBINING GRAVE ACCENT BELOW         (Mn, ccc 220)         *)
(*  8594 U+2192 RIGHTWARDS ARROW                                           *)
(* 65296 U+FF10 FULLWIDTH DIGIT ZERO                 (NFKC: 48)            *)
(***************************************************************************)
EXTENDS Integers, Sequences, FiniteSets, TLC

VARIABLES
    confusables,    \* map[rune]string: the rune -> confusable table
    descriptions,   \* map[string]string: the string -> description table
    op,             \* the sequential API call made last
    arg,            \* its arguments
    ret,            \* what it returned
    panicked,       \* TRUE once a call has panicked or the runtime has
                    \* thrown a fatal error (the program is gone)
    pc,             \* concurrent program: where each thread is
    local,          \* concurrent program: the locals of each thread's call
    lock,           \* SafeConfusables.Lock: the thread holding it, 0 when free
    xf              \* the removeMarks transformer of the shared instance: the
                    \* thread that has Reset it and not yet transformed, else 0

seqVars == <<op, arg, ret>>
safeVars == <<pc, local, lock, xf>>
vars == <<confusables, descriptions, op, arg, ret, panicked, pc, local, lock, xf>>

---------------------------------------------------------------------------
(* Bounds of the model *)

\* longest input string handed to a query, in code points
MaxLen == 2
\* most lines of a reader handed to LoadMappings
MaxLines == 2
\* threads of the concurrent program
NumThreads == 2

Threads == 1..NumThreads

(* Program constants *)

\* unicode.MaxASCII
MaxASCII == 127
\* the base codepointsToRunes parses in
base == 16

---------------------------------------------------------------------------
(* Options and strings *)

None == <<>>
Some(x) == <<x>>

StringsUpTo(A, n) == UNION {[1..k -> A] : k \in 0..n}

RECURSIVE Concat(_)
Concat(ss) == IF ss = <<>> THEN <<>> ELSE Head(ss) \o Concat(Tail(ss))

\* len(string(r)): the number of bytes of r's UTF-8 encoding
utf8Len(r) == IF r < 128 THEN 1 ELSE IF r < 2048 THEN 2 ELSE IF r < 65536 THEN 3 ELSE 4

RECURSIVE byteLen(_)
byteLen(s) == IF s = <<>> THEN 0 ELSE utf8Len(Head(s)) + byteLen(Tail(s))

\* the byte offset at which the k-th code point of s starts (0-based offset)
RECURSIVE byteOffset(_, _)
byteOffset(s, k) == IF k = 1 THEN 0 ELSE utf8Len(Head(s)) + byteOffset(Tail(s), k - 1)

---------------------------------------------------------------------------
(* Unicode normalization (golang.org/x/text/unicode/norm), restricted to   *)
(* the code points of the model                                            *)

\* canonical combining class
ccc(r) == IF r \in {768, 769} THEN 230 ELSE IF r = 790 THEN 220 ELSE 0

\* unicode.Mn: non-spacing marks
inMn(r) == r \in {768, 769, 790}

\* canonical decomposition of one code point
canonDecomp(r) ==
    IF r = 242 THEN <<111, 768>> ELSE IF r = 243 THEN <<111, 769>> ELSE <<r>>

\* compatibility decomposition of one code point
compatDecomp(r) == IF r = 65296 THEN <<48>> ELSE canonDecomp(r)

\* the primary composite of a starter and a following code point, if any
composite(a, b) ==
    IF a = 111 /\ b = 768 THEN Some(242)
    ELSE IF a = 111 /\ b = 769 THEN Some(243)
    ELSE None

\* canonical ordering: c is appended, then moved left over every
\* code point of a higher non-zero combining class
RECURSIVE insertOrdered(_, _)
insertOrdered(s, c) ==
    IF s # <<>> /\ ccc(c) # 0 /\ ccc(s[Len(s)]) > ccc(c)
    THEN Append(insertOrdered(SubSeq(s, 1, Len(s) - 1), c), s[Len(s)])
    ELSE Append(s, c)

RECURSIVE canonOrder(_, _)
canonOrder(done, rest) ==
    IF rest = <<>> THEN done
    ELSE canonOrder(insertOrdered(done, Head(rest)), Tail(rest))

RECURSIVE decomposeAll(_, _)
decomposeAll(s, compat) ==
    IF s = <<>> THEN <<>>
    ELSE (IF compat THEN compatDecomp(Head(s)) ELSE canonDecomp(Head(s)))
            \o decomposeAll(Tail(s), compat)

\* canonical composition of a decomposed, ordered string: out is what is
\* composed so far and st the index in out of the last starter (0: none)
RECURSIVE composeFrom(_, _, _)
composeFrom(out, st, rest) ==
    IF rest = <<>> THEN out
    ELSE LET c == Head(rest)
             unblocked == st > 0 /\ (Len(out) = st \/ ccc(out[Len(out)]) < ccc(c))
             primary == IF unblocked THEN composite(out[st], c) ELSE None
         IN  IF Len(primary) = 1
             THEN composeFrom([out EXCEPT ![st] = primary[1]], st, Tail(rest))
             ELSE composeFrom(Append(out, c),
                              IF ccc(c) = 0 THEN Len(out) + 1 ELSE st,
                              Tail(rest))

\* norm.NFD.String
NFD(s) == canonOrder(<<>>, decomposeAll(s, FALSE))

\* norm.NFC.String
NFC(s) == composeFrom(<<>>, 0, NFD(s))

\* norm.NFKC.String
NFKC(s) == composeFrom(<<>>, 0, canonOrder(<<>>, decomposeAll(s, TRUE)))

\* runes.Remove(runes.In(unicode.Mn))
RECURSIVE removeMn(_)
removeMn(s) ==
    IF s = <<>> THEN <<>>
    ELSE (IF inMn(Head(s)) THEN <<>> ELSE <<Head(s)>>) \o removeMn(Tail(s))

\* transform.String(c.removeMarks, s), after c.removeMarks.Reset():
\* the chain NFD, remove Mn, NFC
removeMarks(s) == NFC(removeMn(NFD(s)))

\* strings.ToLower(string(r)) for one code point
toLower(r) == IF r >= 65 /\ r <= 90 THEN r + 32 ELSE r

---------------------------------------------------------------------------
(* The Mapping Store lookups *)

\* v, ok := confusables[r]
hasConfusable(r) == r \in DOMAIN confusables

\* descriptions[k]: the empty string when k is no key
descriptionOf(k) == IF k \in DOMAIN descriptions THEN descriptions[k] ELSE <<>>

\* m[k] = v on a Go map
mapSet(m, k, v) == [x \in DOMAIN m \cup {k} |-> IF x = k THEN v ELSE m[x]]

---------------------------------------------------------------------------
(* Diffs and descriptions *)

Diff(r, c, d) == [Rune |-> r, Confusable |-> c, Description |-> d]

\* the zero value of Diff, which make([]Diff, n) fills a slice with
zeroDiff == Diff(0, None, None)

isASCII(s) == \A i \in 1..Len(s) : s[i] <= MaxASCII

\* strings.Join(parts, ", ")
RECURSIVE joinCommaSpace(_)
joinCommaSpace(parts) ==
    IF parts = <<>> THEN <<>>
    ELSE IF Len(parts) = 1 THEN parts[1]
    ELSE parts[1] \o <<44, 32>> \o joinCommaSpace(Tail(parts))

\* a faulty variant: a source without a description gets an empty From
getDescriptionMappingPartial(r, confusable) ==
    IF Len(confusable) = 0 THEN None
    ELSE LET nfd == NFD(<<r>>)
             parts == [i \in 1..Len(nfd) |-> descriptionOf(<<nfd[i]>>)]
             literal == descriptionOf(<<r>>)
             rDesc == IF literal # <<>> THEN literal
                      ELSE IF \E i \in 1..Len(nfd) : parts[i] = <<>> THEN <<>>
                      ELSE joinCommaSpace(parts)
             confusableDesc == descriptionOf(confusable[1])
         IN  IF confusableDesc = <<>> THEN None
             ELSE Some([From |-> rDesc, To |-> confusableDesc])

getDescriptionMapping(r, confusable) ==
    IF Len(confusable) = 0 THEN None
    ELSE LET nfd == NFD(<<r>>)
             parts == [i \in 1..Len(nfd) |-> descriptionOf(<<nfd[i]>>)]
             literal == descriptionOf(<<r>>)
             rDesc == IF literal # <<>> THEN Some(literal)
                      ELSE IF \E i \in 1..Len(nfd) : parts[i] = <<>> THEN None
                      ELSE Some(joinCommaSpace(parts))
             confusableDesc == descriptionOf(confusable[1])
         IN  IF Len(rDesc) = 0 THEN None
             ELSE IF confusableDesc = <<>> THEN None
             ELSE Some([From |-> rDesc[1], To |-> confusableDesc])

\* a slice made with make([]Diff, len(s)) and filled by
\* "for i, r := range s { diff[i] = ... }": i is the byte offset of r
\* diffs[k] is the Diff made for the k-th code point of s
sliceByByteOffset(s, diffs) ==
    [i \in 1..byteLen(s) |->
        IF \E k \in 1..Len(s) : byteOffset(s, k) = i - 1
        THEN diffs[CHOOSE k \in 1..Len(s) : byteOffset(s, k) = i - 1]
        ELSE zeroDiff]

noDiffEntry(r) == Diff(r, None, None)

noDiff(s) == sliceByByteOffset(s, [k \in 1..Len(s) |-> noDiffEntry(s[k])])

---------------------------------------------------------------------------
(* Skeleton Engine *)

\* a faulty variant: a rune without a mapping is dropped, not kept
skeletonRuneDropsUnmapped(r) == IF hasConfusable(r) THEN confusables[r] ELSE <<>>

skeletonRune(r) == IF hasConfusable(r) THEN confusables[r] ELSE <<r>>

RECURSIVE skeletonOf(_)
skeletonOf(nfd) ==
    IF nfd = <<>> THEN <<>> ELSE skeletonRune(Head(nfd)) \o skeletonOf(Tail(nfd))

\* a faulty variant: the string is decomposed after the substitution, not before
ToSkeletonDecomposesLast(s) == NFD(skeletonOf(s))

ToSkeleton(s) == skeletonOf(NFD(s))

IsConfusable(s1, s2) == ToSkeleton(s1) = ToSkeleton(s2)

skeletonDiffEntry(r) ==
    LET confusable == IF hasConfusable(r) THEN Some(confusables[r]) ELSE None
    IN  Diff(r, confusable, getDescriptionMapping(r, confusable))

\* a nil slice is the empty sequence
ToSkeletonDiff(s) ==
    LET nfd == NFD(s)
    IN  IF byteLen(nfd) = 0 THEN <<>>
        ELSE sliceByByteOffset(nfd, [k \in 1..Len(nfd) |-> skeletonDiffEntry(nfd[k])])

---------------------------------------------------------------------------
(* ASCII-Folding Engine *)

\* a faulty variant: the rune stripped of its marks is preferred to the
\* store's entry
processRuneStripsFirst(r) ==
    IF r <= MaxASCII THEN Diff(r, None, None)
    ELSE LET mapped == IF hasConfusable(r) THEN Some(removeMarks(confusables[r])) ELSE None
             alone == removeMarks(<<r>>)
         IN  IF isASCII(alone)
             THEN Diff(r, Some(alone), getDescriptionMapping(r, Some(alone)))
             ELSE IF Len(mapped) = 1 /\ isASCII(mapped[1])
             THEN Diff(r, mapped, getDescriptionMapping(r, mapped))
             ELSE Diff(r, None, None)

processRune(r) ==
    IF r <= MaxASCII THEN Diff(r, None, None)
    ELSE LET mapped == IF hasConfusable(r) THEN Some(removeMarks(confusables[r])) ELSE None
             alone == removeMarks(<<r>>)
         IN  IF Len(mapped) = 1 /\ isASCII(mapped[1])
             THEN Diff(r, mapped, getDescriptionMapping(r, mapped))
             ELSE IF isASCII(alone)
             THEN Diff(r, Some(alone), getDescriptionMapping(r, Some(alone)))
             ELSE Diff(r, None, None)

\* what the loop of toASCII writes for one diff
written(diff) == IF Len(diff.Confusable) = 1 THEN diff.Confusable[1] ELSE <<diff.Rune>>

toASCII(s) ==
    IF isASCII(s) THEN [ascii |-> s, diffs |-> noDiff(s)]
    ELSE LET diffs == [i \in 1..Len(s) |-> processRune(s[i])]
         IN  [ascii |-> NFKC(Concat([i \in 1..Len(s) |-> written(diffs[i])])),
              diffs |-> diffs]

ToASCII(s) == toASCII(s).ascii

ToASCIIDiff(s) == toASCII(s)

\* a faulty variant: the comparison is case-sensitive
numberRuneCaseSensitive(r) ==
    IF r = 111 THEN 48 ELSE IF r \in {105, 108, 33} THEN 49 ELSE r

numberRune(r) ==
    LET lower == toLower(r)
    IN  IF lower = 111 THEN 48
        ELSE IF lower \in {105, 108, 33} THEN 49
        ELSE r

ToNumber(s) ==
    LET a == ToASCII(s)
    IN  [i \in 1..Len(a) |-> numberRune(a[i])]

---------------------------------------------------------------------------
(* Mapping-File Parser *)

\* strings.HasPrefix
hasPrefix(s, prefix) ==
    Len(s) >= Len(prefix) /\ SubSeq(s, 1, Len(prefix)) = prefix

\* strings.TrimPrefix
trimPrefix(s, prefix) ==
    IF hasPrefix(s, prefix) THEN SubSeq(s, Len(prefix) + 1, Len(s)) ELSE s

\* strings.Split(s, sep) for a non-empty sep: always at least one piece
RECURSIVE splitFrom(_, _, _)
splitFrom(s, sep, i) ==
    IF i + Len(sep) - 1 > Len(s) THEN <<s>>
    ELSE IF SubSeq(s, i, i + Len(sep) - 1) = sep
    THEN <<SubSeq(s, 1, i - 1)>> \o splitFrom(SubSeq(s, i + Len(sep), Len(s)), sep, 1)
    ELSE splitFrom(s, sep, i + 1)

split(s, sep) == splitFrom(s, sep, 1)

\* unicode.IsSpace, for the code points of the model
isSpace(r) == r \in {9, 10, 11, 12, 13, 32}

\* strings.TrimSpace
RECURSIVE trimLeft(_)
trimLeft(s) == IF s # <<>> /\ isSpace(Head(s)) THEN trimLeft(Tail(s)) ELSE s

RECURSIVE trimRight(_)
trimRight(s) ==
    IF s # <<>> /\ isSpace(s[Len(s)]) THEN trimRight(SubSeq(s, 1, Len(s) - 1)) ELSE s

trimSpace(s) == trimRight(trimLeft(s))

\* the value of a hexadecimal digit, -1 for any other code point
hexValue(r) ==
    IF r >= 48 /\ r <= 57 THEN r - 48
    ELSE IF r >= 65 /\ r <= 70 THEN r - 55
    ELSE IF r >= 97 /\ r <= 102 THEN r - 87
    ELSE -1

\* strconv.ParseUint(s, base, bitsize): None is a *strconv.NumError
\* (the fields of the model are far shorter than the 16 digits 64 bits hold)
RECURSIVE parseUintFrom(_, _)
parseUintFrom(s, acc) ==
    IF s = <<>> THEN Some(acc)
    ELSE IF hexValue(Head(s)) < 0 THEN None
    ELSE parseUintFrom(Tail(s), acc * base + hexValue(Head(s)))

parseUint(s) == IF s = <<>> THEN None ELSE parseUintFrom(s, 0)

\* codepointsToRunes: None when a code point does not parse
RECURSIVE parseAll(_)
parseAll(codePoints) ==
    IF codePoints = <<>> THEN Some(<<>>)
    ELSE LET codePoint == parseUint(Head(codePoints))
             rest == parseAll(Tail(codePoints))
         IN  IF Len(codePoint) = 0 THEN None
             ELSE IF Len(rest) = 0 THEN None
             ELSE Some(<<codePoint[1]>> \o rest[1])

codepointsToRunes(s) == parseAll(split(s, <<32>>))

\* string(target) of a []rune: a rune that is no valid code point
\* becomes U+FFFD
validRune(r) ==
    IF r < 0 \/ r > 1114111 \/ (r >= 55296 /\ r <= 57343) THEN 65533 ELSE r

runesToString(rs) == [i \in 1..Len(rs) |-> validRune(rs[i])]

\* the byte order mark EF BB BF is U+FEFF
BOM == <<65279>>
\* " ;\t"
fieldSep == <<32, 59, 9>>
\* " -> " with U+2192
arrowSep == <<32, 8594, 32>>
\* " ) "
parenSep == <<32, 41, 32>>

\* ParseLine: kind is "entry", "ignore" (ErrIgnoreLine), "error" (the
\* strconv error of codepointsToRunes) or "panic" (index out of range)
parseResult(kind, entry) == [kind |-> kind, entry |-> entry]

ParseLine(text) ==
    LET line == trimPrefix(text, BOM)
        fields == split(line, fieldSep)
        sourceRunes == codepointsToRunes(fields[1])
        target == codepointsToRunes(fields[2])
        arrows == split(fields[3], arrowSep)
        fromParts == split(arrows[2], parenSep)
    IN  IF hasPrefix(line, <<35>>) \/ line = <<>> THEN parseResult("ignore", None)
        ELSE IF Len(sourceRunes) = 0 THEN parseResult("error", None)
        ELSE IF Len(fields) < 2 THEN parseResult("panic", None)
        ELSE IF Len(target) = 0 THEN parseResult("error", None)
        ELSE IF Len(fields) < 3 THEN parseResult("panic", None)
        ELSE IF Len(arrows) < 2 THEN parseResult("panic", None)
        ELSE IF Len(fromParts) < 2 THEN parseResult("panic", None)
        ELSE IF Len(arrows) < 3 THEN parseResult("panic", None)
        ELSE parseResult("entry", Some(
                [Description |-> [From |-> trimSpace(fromParts[2]),
                                  To |-> trimSpace(split(arrows[3], <<35>>)[1])],
                 Source |-> sourceRunes[1][1],
                 Target |-> runesToString(target[1])]))

---------------------------------------------------------------------------
(* Mapping Store writes, as functions of the store they change *)

Store == [confusables |-> confusables, descriptions |-> descriptions]

\* a faulty variant: an existing mapping is kept
AddMappingKeepsFirst(store, r, confusable) ==
    IF r \in DOMAIN store.confusables THEN store
    ELSE [store EXCEPT !.confusables = mapSet(@, r, confusable)]

AddMapping(store, r, confusable) ==
    [store EXCEPT !.confusables = mapSet(@, r, confusable)]

AddMappingWithDesc(store, r, confusable, runeDesc, confusableDesc) ==
    [AddMapping(store, r, confusable)
        EXCEPT !.descriptions = mapSet(@, runeDesc, confusableDesc)]

\* the reader is the sequence of the lines its scanner yields; err is
\* "nil", "error" (a ParseLine error that is not ErrIgnoreLine) or "panic"
RECURSIVE LoadMappings(_, _)
LoadMappings(store, lines) ==
    IF lines = <<>> THEN [store |-> store, err |-> "nil"]
    ELSE LET parsed == ParseLine(Head(lines))
             e == parsed.entry[1]
         IN  IF parsed.kind = "ignore" THEN LoadMappings(store, Tail(lines))
             ELSE IF parsed.kind = "entry"
             THEN LoadMappings(AddMappingWithDesc(store, e.Source, e.Target,
                                   e.Description.From, e.Description.To),
                               Tail(lines))
             ELSE [store |-> store, err |-> parsed.kind]

---------------------------------------------------------------------------
(* The generated baseline tables (tables.go), as far as the tests show     *)
(* them.  Descriptions are abbreviated: "LM" LATIN SMALL LETTER M,         *)
(* "LR, LN" LATIN SMALL LETTER R, LATIN SMALL LETTER N, "LO" LATIN SMALL   *)
(* LETTER O, "CG" COMBINING GRAVE ACCENT, "TW" LATIN SMALL LETTER TURNED W *)

\* 'm' -> "rn"
baselineConfusables == [r \in {109} |-> <<114, 110>>]

\* "m" -> "LM", "rn" -> "LR, LN", "o" -> "LO", U+0300 -> "CG"
baselineDescriptions ==
    [k \in {<<109>>, <<114, 110>>, <<111>>, <<768>>} |->
        IF k = <<109>> THEN <<76, 77>>
        ELSE IF k = <<114, 110>> THEN <<76, 82, 44, 32, 76, 78>>
        ELSE IF k = <<111>> THEN <<76, 79>>
        ELSE <<67, 71>>]

---------------------------------------------------------------------------
(* Inputs *)

\* what the skeleton functions are called with: strings over
\* 'm', U+00F2, U+028D, U+0300, U+0316
SkeletonAlphabet == {109, 242, 653, 768, 790}

SkeletonInputs == StringsUpTo(SkeletonAlphabet, MaxLen)

\* what ToASCII and ToASCIIDiff are called with: strings over
\* 'O', U+00F2, U+00F3, U+028D, U+0300, U+FF10
ASCIIAlphabet == {79, 242, 243, 653, 768, 65296}

ASCIIInputs == StringsUpTo(ASCIIAlphabet, MaxLen)

\* what ToNumber is called with: strings over
\* '!', 'I', 'O', U+00F2, U+028D
NumberAlphabet == {33, 73, 79, 242, 653}

NumberInputs == StringsUpTo(NumberAlphabet, MaxLen)

\* the first argument of IsConfusable: "" and "m"
FirstInputs == {<<>>, <<109>>}

\* the runes AddMapping is called for: U+028D, U+0300
MapRunes == {653, 768}

\* the confusables AddMapping is called with: "", "m", "n", U+FF10
Targets == {<<>>, <<109>>, <<110>>, <<65296>>}

\* the descriptions AddMappingWithDesc is called with:
\* ("TW", "LM") and ("TW", "LO")
DescPairs == {<< <<84, 87>>, <<76, 77>> >>, << <<84, 87>>, <<76, 79>> >>}

\* the empty line
lineBlank ==
    <<>>

\* BOM, then "# c"
lineComment ==
    <<65279, 35, 32, 99>>

\* "028D ;\t006D ;\tMA\t# ( U+028D -> m ) TW -> LM\t# x"
lineTurnedWtoM ==
    <<48, 50, 56, 68, 32, 59, 9, 48, 48, 54, 68, 32, 59, 9, 77, 65, 9, 35, 32,
      40, 32, 653, 32, 8594, 32, 109, 32, 41, 32, 84, 87, 32, 8594, 32, 76, 77,
      9, 35, 32, 120>>

\* "028D ;\t00F2 ;\tMA\t# ( U+028D -> U+00F2 ) TW -> LO"
lineTurnedWtoOGrave ==
    <<48, 50, 56, 68, 32, 59, 9, 48, 48, 70, 50, 32, 59, 9, 77, 65, 9, 35, 32,
      40, 32, 653, 32, 8594, 32, 242, 32, 41, 32, 84, 87, 32, 8594, 32, 76, 79>>

\* "Z ;\t006D ;\tMA": the source is no hexadecimal number
lineBadHex ==
    <<90, 32, 59, 9, 48, 48, 54, 68, 32, 59, 9, 77, 65>>

\* "028D": no " ;\t" delimiter
lineNoDelimiter ==
    <<48, 50, 56, 68>>

\* "028D ;\t006D ;\tMA": the comment field has no arrow
lineNoArrow ==
    <<48, 50, 56, 68, 32, 59, 9, 48, 48, 54, 68, 32, 59, 9, 77, 65>>

Lines == {lineBlank, lineComment, lineTurnedWtoM, lineTurnedWtoOGrave,
          lineBadHex, lineNoDelimiter, lineNoArrow}

Readers == StringsUpTo(Lines, MaxLines)

---------------------------------------------------------------------------
(* The sequential program: one API call after the other *)

\* the locals of a thread that has made no call yet
noLocals == [fn |-> "", s |-> <<>>, i |-> 0, v |-> <<>>, out |-> <<>>,
             r |-> 0, confusable |-> <<>>, withDesc |-> FALSE,
             runeDesc |-> <<>>, confusableDesc |-> <<>>, ret |-> <<>>]

Init ==
    /\ confusables = baselineConfusables
    /\ descriptions = baselineDescriptions
    /\ op = "idle"
    /\ arg = <<>>
    /\ ret = <<>>
    /\ panicked = FALSE
    /\ pc = [t \in Threads |-> "idle"]
    /\ local = [t \in Threads |-> noLocals]
    /\ lock = 0
    /\ xf = 0

\* a call is made when the one before has returned
Returns(name, a, r) ==
    /\ ~panicked
    /\ op = "idle"
    /\ op' = name
    /\ arg' = a
    /\ ret' = r
    /\ UNCHANGED safeVars

Writes(store) ==
    /\ confusables' = store.confusables
    /\ descriptions' = store.descriptions

CallAddMapping(r, confusable) ==
    /\ Returns("AddMapping", [r |-> r, confusable |-> confusable], <<>>)
    /\ Writes(AddMapping(Store, r, confusable))
    /\ UNCHANGED panicked

CallAddMappingWithDesc(r, confusable, runeDesc, confusableDesc) ==
    /\ Returns("AddMappingWithDesc",
               [r |-> r, confusable |-> confusable,
                runeDesc |-> runeDesc, confusableDesc |-> confusableDesc], <<>>)
    /\ Writes(AddMappingWithDesc(Store, r, confusable, runeDesc, confusableDesc))
    /\ UNCHANGED panicked

CallLoadMappings(lines) ==
    LET result == LoadMappings(Store, lines)
    IN  /\ Returns("LoadMappings", [lines |-> lines], result.err)
        /\ Writes(result.store)
        /\ panicked' = (result.err = "panic")

CallParseLine(line) ==
    LET result == ParseLine(line)
    IN  /\ Returns("ParseLine", [line |-> line], result)
        /\ panicked' = (result.kind = "panic")
        /\ UNCHANGED <<confusables, descriptions>>

CallToSkeleton(s) ==
    /\ Returns("ToSkeleton", [s |-> s], ToSkeleton(s))
    /\ UNCHANGED <<confusables, descriptions, panicked>>

CallToSkeletonDiff(s) ==
    /\ Returns("ToSkeletonDiff", [s |-> s], ToSkeletonDiff(s))
    /\ UNCHANGED <<confusables, descriptions, panicked>>

CallIsConfusable(s1, s2) ==
    /\ Returns("IsConfusable", [s1 |-> s1, s2 |-> s2], IsConfusable(s1, s2))
    /\ UNCHANGED <<confusables, descriptions, panicked>>

CallToASCII(s) ==
    /\ Returns("ToASCII", [s |-> s], ToASCII(s))
    /\ UNCHANGED <<confusables, descriptions, panicked>>

CallToASCIIDiff(s) ==
    /\ Returns("ToASCIIDiff", [s |-> s], ToASCIIDiff(s))
    /\ UNCHANGED <<confusables, descriptions, panicked>>

CallToNumber(s) ==
    /\ Returns("ToNumber", [s |-> s], ToNumber(s))
    /\ UNCHANGED <<confusables, descriptions, panicked>>

\* the caller has taken the result of the call: the next call can be made
Done ==
    /\ ~panicked
    /\ op # "idle"
    /\ op' = "idle"
    /\ arg' = <<>>
    /\ ret' = <<>>
    /\ UNCHANGED <<confusables, descriptions, panicked>>
    /\ UNCHANGED safeVars

Next ==
    \/ \E r \in MapRunes, c \in Targets : CallAddMapping(r, c)
    \/ \E r \in MapRunes, c \in Targets, d \in DescPairs :
            CallAddMappingWithDesc(r, c, d[1], d[2])
    \/ \E lines \in Readers : CallLoadMappings(lines)
    \/ \E line \in Lines : CallParseLine(line)
    \/ \E s \in SkeletonInputs : CallToSkeleton(s)
    \/ \E s \in SkeletonInputs : CallToSkeletonDiff(s)
    \/ \E s1 \in FirstInputs, s2 \in SkeletonInputs : CallIsConfusable(s1, s2)
    \/ \E s \in ASCIIInputs : CallToASCII(s)
    \/ \E s \in ASCIIInputs : CallToASCIIDiff(s)
    \/ \E s \in NumberInputs : CallToNumber(s)
    \/ Done

Spec == Init /\ [][Next]_vars

---------------------------------------------------------------------------
(* The concurrent program: threads that share one SafeConfusables and call *)
(* its ToASCII, ToASCIIDiff and ToNumber, and that call the package's      *)
(* AddMapping and AddMappingWithDesc.  A call is a sequence of steps; a    *)
(* map assignment takes two, and a read of a map that another thread is    *)
(* assigning to is a data race: it sees the map before or after the        *)
(* assignment, or the runtime throws "concurrent map read and map write".  *)

\* what the threads call the instance with: U+028D, U+00F2 'O'
SafeInputs == {<<653>>, <<242, 79>>}

SafeFunctions == {"ToASCII", "ToASCIIDiff", "ToNumber"}

\* what the threads call AddMapping with: U+028D -> "m", U+028D -> U+FF10
SafeMapRunes == {653}
SafeTargets == {<<109>>, <<65296>>}

\* the program points at which a thread holds the lock
InsideSafe == {"Rune", "Reset1", "Transform1", "Reset2", "Transform2", "Return"}

Goto(t, label) == pc' = [pc EXCEPT ![t] = label]

\* a thread calls SafeConfusables.ToASCII, ToASCIIDiff or ToNumber
SafeCall(t, fn, s) ==
    /\ ~panicked
    /\ pc[t] = "idle"
    /\ Goto(t, "Lock")
    /\ local' = [local EXCEPT ![t] = [noLocals EXCEPT !.fn = fn, !.s = s, !.i = 1]]
    /\ UNCHANGED <<confusables, descriptions, seqVars, panicked, lock, xf>>

\* a faulty variant: the lock is taken whether it is free or not
LockDoesNotWait(t) ==
    /\ ~panicked
    /\ pc[t] = "Lock"
    /\ lock' = t
    /\ IF isASCII(local[t].s)
       THEN /\ Goto(t, "Return")
            /\ local' = [local EXCEPT ![t].out = local[t].s]
       ELSE /\ Goto(t, "Rune")
            /\ UNCHANGED local
    /\ UNCHANGED <<confusables, descriptions, seqVars, panicked, xf>>

\* c.Lock.Lock(), then toASCII's test of isASCII(s)
Lock(t) ==
    /\ ~panicked
    /\ pc[t] = "Lock"
    /\ lock = 0
    /\ lock' = t
    /\ IF isASCII(local[t].s)
       THEN /\ Goto(t, "Return")
            /\ local' = [local EXCEPT ![t].out = local[t].s]
       ELSE /\ Goto(t, "Rune")
            /\ UNCHANGED local
    /\ UNCHANGED <<confusables, descriptions, seqVars, panicked, xf>>

\* the threads that are assigning to the confusables map
Storing(t) == {u \in Threads \ {t} : pc[u] = "Storing"}

\* the confusables map as a read of thread t may see it
Views(t) ==
    {confusables} \cup
    {mapSet(confusables, local[u].r, local[u].confusable) : u \in Storing(t)}

\* the loop of toASCII and the start of processRune: the next rune is
\* written when it is ASCII, and looked up in the confusables map when not;
\* after the last, the string is normalized
Rune(t) ==
    LET l == local[t]
        r == l.s[l.i]
    IN  /\ ~panicked
        /\ pc[t] = "Rune"
        /\ IF l.i > Len(l.s)
           THEN /\ Goto(t, "Return")
                /\ local' = [local EXCEPT ![t].out = NFKC(l.out)]
           ELSE IF r <= MaxASCII
           THEN /\ Goto(t, "Rune")
                /\ local' = [local EXCEPT ![t].out = l.out \o <<r>>, ![t].i = l.i + 1]
           ELSE \E view \in Views(t) :
                    IF r \in DOMAIN view
                    THEN /\ Goto(t, "Reset1")
                         /\ local' = [local EXCEPT ![t].v = view[r]]
                    ELSE /\ Goto(t, "Reset2")
                         /\ UNCHANGED local
        /\ UNCHANGED <<confusables, descriptions, seqVars, panicked, lock, xf>>

\* the runtime finds the map read of processRune concurrent with a map write
RuneFatal(t) ==
    /\ ~panicked
    /\ pc[t] = "Rune"
    /\ local[t].i <= Len(local[t].s)
    /\ local[t].s[local[t].i] > MaxASCII
    /\ Storing(t) # {}
    /\ panicked' = TRUE
    /\ UNCHANGED <<confusables, descriptions, seqVars, safeVars>>

\* c.removeMarks.Reset() before the mapped string is transformed
Reset1(t) ==
    /\ ~panicked
    /\ pc[t] = "Reset1"
    /\ xf' = t
    /\ Goto(t, "Transform1")
    /\ UNCHANGED <<confusables, descriptions, seqVars, panicked, local, lock>>

\* what a transform gives: removeMarks of the string when the transformer
\* is as this thread has Reset it, and, when another thread has used it
\* since, possibly the string as it is
Transformed(t, s) == IF xf = t THEN {removeMarks(s)} ELSE {removeMarks(s), s}

\* transform.String(c.removeMarks, v): an ASCII result is the substitution
Transform1(t) ==
    LET l == local[t]
    IN  /\ ~panicked
        /\ pc[t] = "Transform1"
        /\ \E v \in Transformed(t, l.v) :
                IF isASCII(v)
                THEN /\ Goto(t, "Rune")
                     /\ local' = [local EXCEPT ![t].out = l.out \o v, ![t].i = l.i + 1]
                ELSE /\ Goto(t, "Reset2")
                     /\ UNCHANGED local
        /\ xf' = 0
        /\ UNCHANGED <<confusables, descriptions, seqVars, panicked, lock>>

\* c.removeMarks.Reset() before the rune itself is transformed
Reset2(t) ==
    /\ ~panicked
    /\ pc[t] = "Reset2"
    /\ xf' = t
    /\ Goto(t, "Transform2")
    /\ UNCHANGED <<confusables, descriptions, seqVars, panicked, local, lock>>

\* transform.String(c.removeMarks, string(r)): an ASCII result is the
\* substitution, and the rune is kept when it is not
Transform2(t) ==
    LET l == local[t]
        r == l.s[l.i]
    IN  /\ ~panicked
        /\ pc[t] = "Transform2"
        /\ \E v \in Transformed(t, <<r>>) :
                local' = [local EXCEPT ![t].out = l.out \o (IF isASCII(v) THEN v ELSE <<r>>),
                                       ![t].i = l.i + 1]
        /\ Goto(t, "Rune")
        /\ xf' = 0
        /\ UNCHANGED <<confusables, descriptions, seqVars, panicked, lock>>

\* ToNumber's pass over the string, the return and the deferred
\* c.Lock.Unlock(): of the call's locals the result is left
Return(t) ==
    LET l == local[t]
    IN  /\ ~panicked
        /\ pc[t] = "Return"
        /\ lock' = 0
        /\ local' = [local EXCEPT ![t] =
                        [noLocals EXCEPT !.ret =
                            IF l.fn = "ToNumber"
                            THEN [i \in 1..Len(l.out) |-> numberRune(l.out[i])]
                            ELSE l.out]]
        /\ Goto(t, "idle")
        /\ UNCHANGED <<confusables, descriptions, seqVars, panicked, xf>>

\* a thread calls AddMapping or AddMappingWithDesc
WriteCall(t, r, confusable, withDesc, runeDesc, confusableDesc) ==
    /\ ~panicked
    /\ pc[t] = "idle"
    /\ Goto(t, "AddMapping")
    /\ local' = [local EXCEPT ![t] =
                    [noLocals EXCEPT !.fn = IF withDesc THEN "AddMappingWithDesc"
                                                        ELSE "AddMapping",
                                     !.r = r, !.confusable = confusable,
                                     !.withDesc = withDesc, !.runeDesc = runeDesc,
                                     !.confusableDesc = confusableDesc]]
    /\ UNCHANGED <<confusables, descriptions, seqVars, panicked, lock, xf>>

\* confusables[r] = confusable begins
BeginStore(t) ==
    /\ ~panicked
    /\ pc[t] = "AddMapping"
    /\ Goto(t, "Storing")
    /\ UNCHANGED <<confusables, descriptions, seqVars, panicked, local, lock, xf>>

\* the runtime finds two map writes concurrent
StoreFatal(t) ==
    /\ ~panicked
    /\ pc[t] = "Storing"
    /\ Storing(t) # {}
    /\ panicked' = TRUE
    /\ UNCHANGED <<confusables, descriptions, seqVars, safeVars>>

\* confusables[r] = confusable ends, and AddMappingWithDesc goes on to
\* descriptions[runeDesc] = confusableDesc
EndStore(t) ==
    /\ ~panicked
    /\ pc[t] = "Storing"
    /\ confusables' = AddMapping(Store, local[t].r, local[t].confusable).confusables
    /\ Goto(t, IF local[t].withDesc THEN "StoringDesc" ELSE "idle")
    /\ local' = [local EXCEPT ![t] = IF local[t].withDesc THEN local[t] ELSE noLocals]
    /\ UNCHANGED <<descriptions, seqVars, panicked, lock, xf>>

\* descriptions[runeDesc] = confusableDesc
StoreDesc(t) ==
    /\ ~panicked
    /\ pc[t] = "StoringDesc"
    /\ descriptions' = mapSet(descriptions, local[t].runeDesc, local[t].confusableDesc)
    /\ Goto(t, "idle")
    /\ local' = [local EXCEPT ![t] = noLocals]
    /\ UNCHANGED <<confusables, seqVars, panicked, lock, xf>>

NextSafe ==
    \E t \in Threads :
        \/ \E fn \in SafeFunctions, s \in SafeInputs : SafeCall(t, fn, s)
        \/ Lock(t)
        \/ Rune(t)
        \/ RuneFatal(t)
        \/ Reset1(t)
        \/ Transform1(t)
        \/ Reset2(t)
        \/ Transform2(t)
        \/ Return(t)
        \/ \E r \in SafeMapRunes, c \in SafeTargets : WriteCall(t, r, c, FALSE, <<>>, <<>>)
        \/ \E r \in SafeMapRunes, c \in SafeTargets, d \in DescPairs :
                WriteCall(t, r, c, TRUE, d[1], d[2])
        \/ BeginStore(t)
        \/ StoreFatal(t)
        \/ EndStore(t)
        \/ StoreDesc(t)

SpecSafe == Init /\ [][NextSafe]_vars

\* the steps of a thread that wait for nothing: once it is at one of them,
\* the scheduler lets it take the step
Body(t) ==
    \/ Rune(t)
    \/ Reset1(t)
    \/ Transform1(t)
    \/ Reset2(t)
    \/ Transform2(t)
    \/ Return(t)
    \/ BeginStore(t)
    \/ EndStore(t)
    \/ StoreDesc(t)

\* the scheduler runs every runnable goroutine, and sync.Mutex hands the
\* lock to a goroutine that keeps waiting for it (its starvation mode);
\* no call has to be made, and the runtime need not detect a data race
Fairness == \A t \in Threads : WF_vars(Body(t)) /\ SF_vars(Lock(t))

SpecSafeFair == SpecSafe /\ Fairness

---------------------------------------------------------------------------
(* Properties of the sequential program *)

\* every target of the store is a non-empty ASCII string none of whose
\* characters has a mapping of its own
TargetsAreClosed ==
    \A r \in DOMAIN confusables :
        /\ confusables[r] # <<>>
        /\ isASCII(confusables[r])
        /\ \A i \in 1..Len(confusables[r]) : ~hasConfusable(confusables[r][i])

\* C1, as claimed: in every state of the Mapping Store the skeleton a
\* ToSkeleton call returns is its own skeleton
C1_SkeletonIdempotent ==
    op = "ToSkeleton" => ToSkeleton(ret) = ret

\* C1, amended: the skeleton a ToSkeleton call returns is its own skeleton
\* when every target of the store is a non-empty ASCII string none of whose
\* characters has a mapping of its own
C1_SkeletonIdempotentOnClosedStore ==
    (op = "ToSkeleton" /\ TargetsAreClosed) => ToSkeleton(ret) = ret

\* U+028D -> "n" was added, and the skeleton of U+00F2 U+028D is "o" U+0300 "n"
C1_Witness ==
    /\ op = "ToSkeleton"
    /\ TargetsAreClosed
    /\ hasConfusable(653)
    /\ arg.s = <<242, 653>>
    /\ ret = <<111, 768, 110>>

NoEmptyTarget == \A r \in DOMAIN confusables : confusables[r] # <<>>

EmptyOnlyWithEmpty ==
    /\ arg.s1 = <<>> => (ret <=> arg.s2 = <<>>)
    /\ arg.s2 = <<>> => (ret <=> arg.s1 = <<>>)

\* C2, as claimed: in every state of the Mapping Store IsConfusable with an
\* empty argument is true exactly when the other argument is empty too
C2_EmptyConfusableOnlyWithEmpty ==
    op = "IsConfusable" => EmptyOnlyWithEmpty

\* C2, amended: IsConfusable with an empty argument is true exactly when the
\* other argument is empty too, in every state of the Mapping Store that
\* has no empty target
C2_EmptyConfusableOnlyWithEmptyNoEmptyTarget ==
    (op = "IsConfusable" /\ NoEmptyTarget) => EmptyOnlyWithEmpty

\* U+028D has a (non-empty) mapping and "" is not confusable with U+028D
C2_Witness ==
    /\ op = "IsConfusable"
    /\ NoEmptyTarget
    /\ hasConfusable(653)
    /\ arg.s1 = <<>>
    /\ arg.s2 = <<653>>
    /\ ret = FALSE

\* C3: ToSkeletonDiff returns one Diff per code point of NFD(s), in order,
\* each with that code point as Rune and with Confusable set exactly when
\* the store maps it (then to the mapped string)
C3_OneDiffPerDecomposedCodePoint ==
    op = "ToSkeletonDiff" =>
        LET nfd == NFD(arg.s)
        IN  /\ Len(ret) = Len(nfd)
            /\ \A k \in 1..Len(nfd) :
                /\ ret[k].Rune = nfd[k]
                /\ ret[k].Confusable =
                      IF hasConfusable(nfd[k]) THEN Some(confusables[nfd[k]]) ELSE None

\* C4: the confusable-or-rune of the diffs of ToASCIIDiff, concatenated in
\* order, is the string it returns, which is ToASCII's
C4_DiffsReproduceASCII ==
    op = "ToASCIIDiff" =>
        /\ ret.ascii = ToASCII(arg.s)
        /\ ret.ascii =
              Concat([k \in 1..Len(ret.diffs) |->
                        IF Len(ret.diffs[k].Confusable) = 1
                        THEN ret.diffs[k].Confusable[1]
                        ELSE <<ret.diffs[k].Rune>>])

\* C6: after AddMappingWithDesc(r, confusable, fromDesc, toDesc) the
\* description table holds fromDesc under r's string and toDesc under
\* confusable
C6_DescriptionsStoredUnderRuneAndConfusable ==
    op = "AddMappingWithDesc" =>
        /\ descriptionOf(<<arg.r>>) = arg.runeDesc
        /\ descriptionOf(arg.confusable) = arg.confusableDesc

\* what ParseLine returns for each line of the model
Parsed == [l \in Lines |-> ParseLine(l)]

\* the lines of a reader at which LoadMappings stops: those that neither
\* parse nor are to be ignored
Stops(lines) == {i \in 1..Len(lines) : Parsed[lines[i]].kind \notin {"entry", "ignore"}}

\* the lines of a reader that LoadMappings applies: the entries before the
\* first line at which it stops
Applied(lines) ==
    LET stops == Stops(lines)
    IN  {i \in 1..Len(lines) :
            /\ Parsed[lines[i]].kind = "entry"
            /\ \A j \in stops : i < j}

\* the entries of the applied lines, in order
AppliedEntries(lines) ==
    LET idx == Applied(lines)
        nth(n) == CHOOSE i \in idx : Cardinality({j \in idx : j <= i}) = n
    IN  [n \in 1..Cardinality(idx) |-> Parsed[lines[nth(n)]].entry[1]]

\* the insertions the call of this step makes, in order
Insertions ==
    IF op' \in {"AddMapping", "AddMappingWithDesc"}
    THEN <<[r |-> arg'.r, confusable |-> arg'.confusable]>>
    ELSE IF op' = "LoadMappings"
    THEN LET entries == AppliedEntries(arg'.lines)
         IN  [n \in 1..Len(entries) |->
                [r |-> entries[n].Source, confusable |-> entries[n].Target]]
    ELSE <<>>

\* C7: after a call the entry of a code point is the target of the call's
\* last insertion for it, or what it was when the call made none; no entry
\* is removed; ToSkeleton and ToASCII of a mapped code point use the entry
C7_LastWriteWins ==
    [][LET ins == Insertions
           last(r) == ins[CHOOSE n \in 1..Len(ins) :
                            /\ ins[n].r = r
                            /\ \A m \in (n + 1)..Len(ins) : ins[m].r # r].confusable
           inserted(r) == \E n \in 1..Len(ins) : ins[n].r = r
           s == arg'.s
       IN  /\ DOMAIN confusables' = DOMAIN confusables \cup {ins[n].r : n \in 1..Len(ins)}
           /\ \A r \in DOMAIN confusables' :
                confusables'[r] = IF inserted(r) THEN last(r) ELSE confusables[r]
           /\ (op' = "ToSkeleton" /\ Len(s) = 1 /\ NFD(s) = s /\ hasConfusable(s[1]))
                => ret' = confusables[s[1]]
           /\ (op' = "ToASCII" /\ Len(s) = 1 /\ s[1] > MaxASCII /\ hasConfusable(s[1])
                    /\ isASCII(removeMarks(confusables[s[1]])))
                => ret' = NFKC(removeMarks(confusables[s[1]]))
      ]_vars

\* one LoadMappings call inserted "m" and then U+00F2 for U+028D
C7_Witness ==
    /\ op = "LoadMappings"
    /\ arg.lines = <<lineTurnedWtoM, lineTurnedWtoOGrave>>
    /\ confusables[653] = <<242>>

\* a line that is to be skipped: empty or a '#' comment, after the BOM
Ignorable(line) ==
    LET l == trimPrefix(line, BOM) IN l = <<>> \/ Head(l) = 35

\* C8: ParseLine returns an entry, ErrIgnoreLine or an error, and for a line
\* that is not to be skipped and has fewer than three fields, an error
C8_MalformedLineIsAnError ==
    op = "ParseLine" =>
        /\ ret.kind \in {"entry", "ignore", "error"}
        /\ (~Ignorable(arg.line) /\ Len(split(arg.line, fieldSep)) < 3)
                => ret.kind = "error"

\* the store extended by AddMappingWithDesc of each entry, in order
RECURSIVE ExtendedBy(_, _)
ExtendedBy(store, entries) ==
    IF entries = <<>> THEN store
    ELSE ExtendedBy(AddMappingWithDesc(store, Head(entries).Source, Head(entries).Target,
                        Head(entries).Description.From, Head(entries).Description.To),
                    Tail(entries))

\* C9: LoadMappings returns the error of the first line that is malformed,
\* with the entries before it added in order and nothing after it, and no
\* error, with every entry added, when no line is malformed
C9_StopsAtFirstHardError ==
    [][op' = "LoadMappings" =>
        /\ ret' = IF Stops(arg'.lines) = {} THEN "nil" ELSE "error"
        /\ Store' = ExtendedBy(Store, AppliedEntries(arg'.lines))
      ]_vars

PostPass(a) ==
    [i \in 1..Len(a) |->
        IF a[i] \in {111, 79} THEN 48
        ELSE IF a[i] \in {105, 73, 108, 76, 33} THEN 49
        ELSE a[i]]

\* C10: ToNumber returns ToASCII's string with o and O replaced by 0 and
\* i, I, l, L and ! by 1, every other character kept in place
C10_NumberIsPostPassOfASCII ==
    op = "ToNumber" =>
        /\ ret = PostPass(ToASCII(arg.s))
        /\ Len(ret) = Len(ToASCII(arg.s))
        /\ \A i \in 1..Len(ret) : ret[i] \notin {111, 79, 105, 73, 108, 76, 33}

\* ToNumber("IO" U+00F2 ...): 'I' became '1', 'O' and the 'o' of U+00F2 '0'
C10_Witness ==
    /\ op = "ToNumber"
    /\ arg.s = <<73, 242>>
    /\ ret = <<49, 48>>

---------------------------------------------------------------------------
(* Properties of the concurrent program *)

\* C5: no thread assigns to a map of the Mapping Store while another thread
\* is inside a ToASCII, ToASCIIDiff or ToNumber call of the SafeConfusables
C5_NoWriteDuringSafeCall ==
    \A w \in Threads : \A t \in Threads \ {w} :
        pc[w] \in {"Storing", "StoringDesc"} => pc[t] \notin InsideSafe

---------------------------------------------------------------------------
(* Properties of the ASCII folding and of the descriptions *)

\* the substitution for a code point, by the order of precedence: none for
\* an ASCII code point, the store's target without its marks when that is
\* ASCII, the code point without its marks when that is ASCII, and none
Substitution(r) ==
    IF r <= MaxASCII THEN None
    ELSE IF hasConfusable(r) /\ isASCII(removeMarks(confusables[r]))
    THEN Some(removeMarks(confusables[r]))
    ELSE IF isASCII(removeMarks(<<r>>)) THEN Some(removeMarks(<<r>>))
    ELSE None

\* C11: ToASCIIDiff returns one Diff per code point of its input, in order,
\* whose Confusable is the substitution that the order of precedence gives
\* for that code point alone; an ASCII input is returned as it is, with no
\* Confusable in any Diff
C11_FoldsEachCodePointByPriority ==
    op = "ToASCIIDiff" =>
        /\ Len(ret.diffs) = Len(arg.s)
        /\ \A k \in 1..Len(arg.s) :
            /\ ret.diffs[k].Rune = arg.s[k]
            /\ ret.diffs[k].Confusable = Substitution(arg.s[k])
        /\ isASCII(arg.s) => ret.ascii = arg.s

\* U+0300 -> "n" and U+028D -> U+FF10 are in the store: for U+0300 the
\* entry is taken, not the empty string that is left of U+0300 without its
\* marks, and U+028D, whose entry is not ASCII, is kept
C11_Witness ==
    /\ op = "ToASCIIDiff"
    /\ arg.s = <<768, 653>>
    /\ hasConfusable(768) /\ confusables[768] = <<110>>
    /\ hasConfusable(653) /\ confusables[653] = <<65296>>
    /\ ret.diffs[1].Confusable = Some(<<110>>)
    /\ ret.diffs[2].Confusable = None

\* k has a known description: a non-empty entry of the description table
Known(k) == k \in DOMAIN descriptions /\ descriptions[k] # <<>>

\* the description of a source code point: the one under its literal form
\* or, failing that, the ", "-join of the descriptions of the code points
\* of its canonical decomposition when all of them are known
SourceDescription(r) ==
    LET nfd == NFD(<<r>>)
    IN  IF Known(<<r>>) THEN Some(descriptions[<<r>>])
        ELSE IF \A i \in 1..Len(nfd) : Known(<<nfd[i]>>)
        THEN Some(joinCommaSpace([i \in 1..Len(nfd) |-> descriptions[<<nfd[i]>>]]))
        ELSE None

\* the Description of a Diff: present, with both sides, when the Diff has a
\* confusable with a known description and its rune has a description
Resolved(diff) ==
    IF /\ Len(diff.Confusable) = 1
       /\ Known(diff.Confusable[1])
       /\ Len(SourceDescription(diff.Rune)) = 1
    THEN Some([From |-> SourceDescription(diff.Rune)[1],
               To |-> descriptions[diff.Confusable[1]]])
    ELSE None

\* the Diffs a ToASCIIDiff or ToSkeletonDiff call has returned
ReturnedDiffs ==
    IF op = "ToASCIIDiff" THEN ret.diffs
    ELSE IF op = "ToSkeletonDiff" THEN ret
    ELSE <<>>

\* C12: the Description of every Diff that ToASCIIDiff or ToSkeletonDiff
\* returns is present exactly when the Diff has a confusable with a known
\* description and its rune has one, literal or joined over all the code
\* points of its decomposition, and then holds exactly those two
C12_DescriptionAllOrNothing ==
    \A k \in 1..Len(ReturnedDiffs) :
        ReturnedDiffs[k].Description = Resolved(ReturnedDiffs[k])

\* ToASCIIDiff of U+00F2 U+00F3: both fold to "o"; U+00F2 is described by
\* the join "LO, CG" of its parts, U+00F3 has a part (U+0301) without a
\* description and gets no Description
C12_Witness ==
    /\ op = "ToASCIIDiff"
    /\ arg.s = <<242, 243>>
    /\ ret.diffs[1].Confusable = Some(<<111>>)
    /\ ret.diffs[1].Description =
          Some([From |-> <<76, 79, 44, 32, 67, 71>>, To |-> <<76, 79>>])
    /\ ret.diffs[2].Confusable = Some(<<111>>)
    /\ ret.diffs[2].Description = None

---------------------------------------------------------------------------
(* Properties of the lock *)

\* the threads inside the body of a ToASCII, ToASCIIDiff or ToNumber call
Inside == {t \in Threads : pc[t] \in InsideSafe}

\* C13: at most one thread is inside the body of a call of the instance,
\* and it is the one that holds the lock; a thread that is between its
\* Reset of the transformer and the end of its transform finds the
\* transformer as its own Reset left it
C13_OneThreadInsideTheInstance ==
    /\ Cardinality(Inside) <= 1
    /\ \A t \in Threads :
        /\ t \in Inside <=> lock = t
        /\ pc[t] \in {"Transform1", "Transform2"} => xf = t

\* thread 1 has Reset the transformer for the entry of U+028D while
\* thread 2 has called the instance and waits for the lock
C13_Witness ==
    /\ pc[1] = "Transform1"
    /\ local[1].s = <<653>>
    /\ xf = 1
    /\ pc[2] = "Lock"
    /\ lock = 1

\* the threads with a ToASCII, ToASCIIDiff or ToNumber call in progress
Calling == {t \in Threads : pc[t] \in InsideSafe \cup {"Lock"}}

\* a call takes the lock once, when it is free, at c.Lock.Lock(), and
\* gives it back when it returns, and at no other step
LockOnceAndUnlockOnReturn ==
    \A t \in Threads :
        /\ (lock # t /\ lock' = t) => (lock = 0 /\ pc[t] = "Lock" /\ pc'[t] \in InsideSafe)
        /\ (lock = t /\ lock' # t) => (lock' = 0 /\ pc[t] = "Return" /\ pc'[t] = "idle")
        /\ (pc[t] \in InsideSafe /\ pc'[t] \in InsideSafe) => lock' = lock

\* C14: every call takes the lock once and gives it back on return, the
\* lock is free whenever no call is in progress, and under fair scheduling
\* every call that was made returns
C14_EveryCallReturnsAndFreesTheLock ==
    /\ [][LockOnceAndUnlockOnReturn]_vars
    /\ [](Calling = {} => lock = 0)
    /\ \A t \in Threads : (pc[t] = "Lock") ~> (pc[t] = "idle")

===========================================================================
